---- MODULE Spec2Model ----
(***************************************************************************)
(* Model of src/common/database.cpp (YamlDatabase): the header             *)
(* compatibility check, the location resolver, the typed accessor and the  *)
(* per-file, per-entry driver loop of parse.                               *)
(*                                                                         *)
(* A YAML::Node is a record                                                *)
(*   [kind, text, seq, map, line]                                          *)
(* kind is "Zombie" (an invalid node, the result of a failed lookup),      *)
(* "Null", "Scalar", "Sequence" or "Map"; text is the scalar's text; seq   *)
(* the elements of a sequence; map the (key, value) pairs of a mapping in  *)
(* document order; line the 0-based line of the node's mark.               *)
(***************************************************************************)
EXTENDS Integers, Sequences, FiniteSets, TLC

VARIABLES
    type,            \* this->type
    version,         \* this->version
    minimumVersion,  \* this->minimumVersion
    root,            \* this->root
    pc,              \* position of the running parse call
    db_filename,     \* parse: the resolved path list
    fileIdx,         \* parse: index of current_file in db_filename
    bodyPos,         \* parse: position of the Body iterator
    count,           \* parse: the per-file counter
    result,          \* parse: the returned value ("none" while running)
    log,             \* diagnostics and callback invocations of the running parse call
    loads,           \* the load calls of the running parse call: path, file content,
                     \* outcome, and the index in log of what follows the call
    req,             \* the arguments of the running parse call
    acc,             \* the last call of a typed accessor or of nodeExists made from
                     \* outside parse: its arguments and its outcome
    wrapsNegative    \* the build's conversion of a scalar to an unsigned integer
                     \* takes a leading minus sign and wraps the value (TRUE), or
                     \* fails on it (FALSE)

vars == <<type, version, minimumVersion, root, pc, db_filename, fileIdx,
          bodyPos, count, result, log, loads, req, acc, wrapsNegative>>

----------------------------------------------------------------------------
(* Bounds *)

MaxBody == 2
MaxVersion == 3

----------------------------------------------------------------------------
(* YAML nodes (yaml-cpp), as far as database.cpp uses them *)

ZombieNode == [kind |-> "Zombie", text |-> "", seq |-> <<>>, map |-> <<>>, line |-> 0]

NullNode == [kind |-> "Null", text |-> "", seq |-> <<>>, map |-> <<>>, line |-> 0]

Scalar(t, l) == [kind |-> "Scalar", text |-> t, seq |-> <<>>, map |-> <<>>, line |-> l]

NullAt(l) == [kind |-> "Null", text |-> "", seq |-> <<>>, map |-> <<>>, line |-> l]

SeqNode(s, l) == [kind |-> "Sequence", text |-> "", seq |-> s, map |-> <<>>, line |-> l]

MapNode(m, l) == [kind |-> "Map", text |-> "", seq |-> <<>>, map |-> m, line |-> l]

Pair(k, v) == [key |-> k, val |-> v]

\* the pairs of m whose key is name
KeyIdx(m, name) == {i \in 1..Len(m) : m[i].key = name}

\* node[name] on a const node: what is thrown, and the node returned
NodeGet(node, name) ==
    CASE node.kind = "Zombie" -> [thrown |-> "InvalidNode", node |-> ZombieNode]
      [] node.kind = "Scalar" -> [thrown |-> "BadSubscript", node |-> ZombieNode]
      [] node.kind = "Map" /\ KeyIdx(node.map, name) # {} ->
            [thrown |-> "none",
             node |-> node.map[CHOOSE i \in KeyIdx(node.map, name) :
                                   \A j \in KeyIdx(node.map, name) : i <= j].val]
      [] OTHER -> [thrown |-> "none", node |-> ZombieNode]

\* Node::IsDefined, also the node's conversion to bool
IsDefined(node) == node.kind # "Zombie"

\* the values a range-for over the node visits: the elements of a sequence;
\* for a mapping one value per pair, whose Node part is invalid
Iterate(node) ==
    CASE node.kind = "Sequence" -> node.seq
      [] node.kind = "Map" -> [i \in 1..Len(node.map) |-> ZombieNode]
      [] OTHER -> <<>>

\* node.as<std::string>()
AsStdString(node) ==
    IF node.kind = "Scalar"
    THEN [thrown |-> "none", value |-> node.text]
    ELSE [thrown |-> "BadConversion", value |-> ""]

\* the decimal numerals the model's scalars use, with their values
Numeral ==
    ("0" :> 0) @@ ("1" :> 1) @@ ("2" :> 2) @@ ("3" :> 3) @@ ("4" :> 4) @@
    ("5" :> 5) @@ ("7" :> 7) @@
    ("65535" :> 65535) @@ ("65536" :> 65536) @@ ("65538" :> 65538) @@
    ("-1" :> -1) @@ ("-65532" :> -65532) @@ ("-65533" :> -65533) @@
    ("-65534" :> -65534)

UInt16Max == 65535

(* node.as<uint16>(): a scalar whose text is a numeral in range converts.  *)
(* The text is read by operator>> of a stream into an unsigned short: a    *)
(* numeral above the range fails; one with a minus sign is negated in the  *)
(* unsigned type by the stream (the value modulo 2^16), unless the build's *)
(* yaml-cpp refuses a minus sign for unsigned types.                       *)
AsStdUInt16(node) ==
    IF /\ node.kind = "Scalar"
       /\ node.text \in DOMAIN Numeral
       /\ Numeral[node.text] <= UInt16Max
       /\ -Numeral[node.text] <= UInt16Max
       /\ Numeral[node.text] < 0 => wrapsNegative
    THEN [thrown |-> "none", value |-> Numeral[node.text] % (UInt16Max + 1)]
    ELSE [thrown |-> "BadConversion", value |-> 0]

----------------------------------------------------------------------------
(* Diagnostics and callback invocations, in the order they happen *)

Event(ev, msg, n1, n2, file, node, ret) ==
    [ev |-> ev, msg |-> msg, n1 |-> n1, n2 |-> n2, file |-> file, node |-> node, ret |-> ret]

ShowError(msg, n1, n2, file) == Event("error", msg, n1, n2, file, NullNode, FALSE)

ShowWarning(msg, n1, n2, file) == Event("warning", msg, n1, n2, file, NullNode, FALSE)

ShowStatus(msg, n1, file) == Event("status", msg, n1, 0, file, NullNode, FALSE)

\* func(node, current_file) returned ret
Called(node, file, ret) == Event("call", "func", 0, 0, file, node, ret)

----------------------------------------------------------------------------
(* YamlDatabase::nodeExists *)

nodeExists(node, name) ==
    LET g == NodeGet(node, name) IN
    IF g.thrown = "InvalidNode" THEN [thrown |-> "none", ret |-> FALSE]
    ELSE IF g.thrown # "none" THEN [thrown |-> g.thrown, ret |-> FALSE]
    ELSE [thrown |-> "none", ret |-> IsDefined(g.node)]

\* dataNode.as<R>() for the element types the model uses
Convert(R, node) ==
    CASE R = "uint16" -> AsStdUInt16(node)
      [] OTHER -> AsStdString(node)

\* node.Mark().line
MarkLine(node) ==
    IF node.kind = "Zombie"
    THEN [thrown |-> "InvalidNode", line |-> 0]
    ELSE [thrown |-> "none", line |-> node.line]

\* mutant: a field that is missing without a default leaves the type's zero
\* value in *out
asType_clobber(R, node, name, outNull, old, hasDefault, def) ==
    LET e == nodeExists(node, name)
        dataNode == NodeGet(node, name).node
        c == Convert(R, dataNode)
    IN
    IF outNull
    THEN [thrown |-> "none", ret |-> FALSE, out |-> old,
          diags |-> <<Event("fatal", "asType: No output pointer was given.", 0, 0, name, NullNode, FALSE)>>]
    ELSE IF e.thrown # "none"
    THEN [thrown |-> e.thrown, ret |-> FALSE, out |-> old, diags |-> <<>>]
    ELSE IF e.ret
    THEN IF c.thrown = "none"
         THEN [thrown |-> "none", ret |-> TRUE, out |-> c.value, diags |-> <<>>]
         ELSE IF hasDefault
         THEN [thrown |-> "none", ret |-> TRUE, out |-> def,
               diags |-> <<ShowWarning("Unable to parse. Using default value...", dataNode.line + 1, 0, name)>>]
         ELSE [thrown |-> "none", ret |-> FALSE, out |-> old,
               diags |-> <<ShowError("Unable to parse", dataNode.line + 1, 0, name)>>]
    ELSE IF hasDefault
    THEN [thrown |-> "none", ret |-> TRUE, out |-> def, diags |-> <<>>]
    ELSE IF MarkLine(node).thrown # "none"
    THEN [thrown |-> MarkLine(node).thrown, ret |-> FALSE, out |-> old, diags |-> <<>>]
    ELSE [thrown |-> "none", ret |-> FALSE, out |-> c.value,
          diags |-> <<ShowError("Missing node", MarkLine(node).line + 1, 0, name)>>]

(* asType<R>(node, name, out, defaultValue).  outNull: out == nullptr;     *)
(* old: what *out holds before the call; hasDefault: defaultValue !=       *)
(* nullptr; def: *defaultValue.  Gives the returned value, what *out holds *)
(* after the call, the diagnostics, and what is thrown.                    *)
asType(R, node, name, outNull, old, hasDefault, def) ==
    LET e == nodeExists(node, name)
        dataNode == NodeGet(node, name).node
        c == Convert(R, dataNode)
    IN
    IF outNull
    THEN [thrown |-> "none", ret |-> FALSE, out |-> old,
          diags |-> <<Event("fatal", "asType: No output pointer was given.", 0, 0, name, NullNode, FALSE)>>]
    ELSE IF e.thrown # "none"
    THEN [thrown |-> e.thrown, ret |-> FALSE, out |-> old, diags |-> <<>>]
    ELSE IF e.ret
    THEN IF c.thrown = "none"
         THEN [thrown |-> "none", ret |-> TRUE, out |-> c.value, diags |-> <<>>]
         ELSE IF hasDefault
         THEN [thrown |-> "none", ret |-> TRUE, out |-> def,
               diags |-> <<ShowWarning("Unable to parse. Using default value...", dataNode.line + 1, 0, name)>>]
         ELSE [thrown |-> "none", ret |-> FALSE, out |-> old,
               diags |-> <<ShowError("Unable to parse", dataNode.line + 1, 0, name)>>]
    ELSE IF hasDefault
    THEN [thrown |-> "none", ret |-> TRUE, out |-> def, diags |-> <<>>]
    ELSE IF MarkLine(node).thrown # "none"
    THEN [thrown |-> MarkLine(node).thrown, ret |-> FALSE, out |-> old, diags |-> <<>>]
    ELSE [thrown |-> "none", ret |-> FALSE, out |-> old,
          diags |-> <<ShowError("Missing node", MarkLine(node).line + 1, 0, name)>>]

\* YamlDatabase::asUInt16(node, name, out)
asUInt16(node, name, old) == asType("uint16", node, name, FALSE, old, FALSE, 0)

----------------------------------------------------------------------------
(* YamlDatabase::verifyCompatibility: the returned value, the diagnostics  *)
(* and what is thrown.  An uninitialized tmpVersion is never read: it is   *)
(* read only after asUInt16 returned true, which wrote it.                 *)

\* mutant: the lower bound is not tested, whatever is older is only outdated
VersionCheck_noMinimum(tmpVersion) ==
    IF tmpVersion # version
    THEN IF tmpVersion > version
         THEN [thrown |-> "none", ret |-> FALSE,
               diags |-> <<ShowError("not supported: maximum version", tmpVersion, version, "")>>]
         ELSE [thrown |-> "none", ret |-> TRUE,
               diags |-> <<ShowWarning("outdated: current version", tmpVersion, minimumVersion, "")>>]
    ELSE [thrown |-> "none", ret |-> TRUE, diags |-> <<>>]

\* mutant: the test for the current version is missing, it is taken as outdated
VersionCheck_noEqual(tmpVersion) ==
    IF tmpVersion > version
    THEN [thrown |-> "none", ret |-> FALSE,
          diags |-> <<ShowError("not supported: maximum version", tmpVersion, version, "")>>]
    ELSE IF tmpVersion >= minimumVersion
    THEN [thrown |-> "none", ret |-> TRUE,
          diags |-> <<ShowWarning("outdated: current version", tmpVersion, minimumVersion, "")>>]
    ELSE [thrown |-> "none", ret |-> FALSE,
          diags |-> <<ShowError("not supported anymore: minimum version", tmpVersion, minimumVersion, "")>>]

\* mutant: an outdated version is accepted without the warning
VersionCheck_silent(tmpVersion) ==
    IF tmpVersion # version
    THEN IF tmpVersion > version
         THEN [thrown |-> "none", ret |-> FALSE,
               diags |-> <<ShowError("not supported: maximum version", tmpVersion, version, "")>>]
         ELSE IF tmpVersion >= minimumVersion
         THEN [thrown |-> "none", ret |-> TRUE, diags |-> <<>>]
         ELSE [thrown |-> "none", ret |-> FALSE,
               diags |-> <<ShowError("not supported anymore: minimum version", tmpVersion, minimumVersion, "")>>]
    ELSE [thrown |-> "none", ret |-> TRUE, diags |-> <<>>]

VersionCheck(tmpVersion) ==
    IF tmpVersion # version
    THEN IF tmpVersion > version
         THEN [thrown |-> "none", ret |-> FALSE,
               diags |-> <<ShowError("not supported: maximum version", tmpVersion, version, "")>>]
         ELSE IF tmpVersion >= minimumVersion
         THEN [thrown |-> "none", ret |-> TRUE,
               diags |-> <<ShowWarning("outdated: current version", tmpVersion, minimumVersion, "")>>]
         ELSE [thrown |-> "none", ret |-> FALSE,
               diags |-> <<ShowError("not supported anymore: minimum version", tmpVersion, minimumVersion, "")>>]
    ELSE [thrown |-> "none", ret |-> TRUE, diags |-> <<>>]

LowerCase == ("ITEM_DB" :> "item_db") @@ ("item_db" :> "item_db")

\* mutant: the types are compared without regard to case
TypeDiffers_noCase(tmpType) == LowerCase[tmpType] # LowerCase[type]

\* line 36: tmpType != this->type
TypeDiffers(tmpType) == tmpType # type

verifyCompatibility(rootNode) ==
    LET eh == nodeExists(rootNode, "Header")
        headerNode == NodeGet(rootNode, "Header").node
        et == nodeExists(headerNode, "Type")
        typeNode == NodeGet(headerNode, "Type").node
        tmpType == AsStdString(typeNode)
        av == asUInt16(headerNode, "Version", 0)
    IN
    IF eh.thrown # "none"
    THEN [thrown |-> eh.thrown, ret |-> FALSE, diags |-> <<>>]
    ELSE IF ~eh.ret
    THEN [thrown |-> "none", ret |-> FALSE,
          diags |-> <<ShowError("No database header was found.", 0, 0, "")>>]
    ELSE IF et.thrown # "none"
    THEN [thrown |-> et.thrown, ret |-> FALSE, diags |-> <<>>]
    ELSE IF ~et.ret
    THEN [thrown |-> "none", ret |-> FALSE,
          diags |-> <<ShowError("No database type was found.", 0, 0, "")>>]
    ELSE IF tmpType.thrown # "none"
    THEN [thrown |-> tmpType.thrown, ret |-> FALSE, diags |-> <<>>]
    ELSE IF TypeDiffers(tmpType.value)
    THEN [thrown |-> "none", ret |-> FALSE,
          diags |-> <<ShowError("Database type mismatch", 0, 0, tmpType.value)>>]
    ELSE IF av.thrown # "none"
    THEN [thrown |-> av.thrown, ret |-> FALSE, diags |-> av.diags]
    ELSE IF ~av.ret
    THEN [thrown |-> "none", ret |-> FALSE,
          diags |-> av.diags \o <<ShowError("Invalid header version type", 0, 0, "")>>]
    ELSE LET vc == VersionCheck(av.out) IN
         [thrown |-> "none", ret |-> vc.ret, diags |-> av.diags \o vc.diags]

----------------------------------------------------------------------------
(* YamlDatabase::load.  file is what YAML::LoadFile(path) does: ok FALSE   *)
(* when it throws a YAML::Exception (unreadable or malformed file),        *)
(* otherwise the document.  Gives the returned value, the root after the   *)
(* call, the diagnostics and what is thrown.                               *)

\* mutant: the parsed document becomes the root without the header check
load_unchecked(path, file, oldRoot) ==
    IF ~file.ok
    THEN [thrown |-> "none", ret |-> FALSE, root |-> oldRoot,
          diags |-> <<ShowError("Failed to read database file", 0, 0, path),
                      ShowError("parser message (Line: Column)", 0, 0, "")>>]
    ELSE [thrown |-> "none", ret |-> TRUE, root |-> file.doc, diags |-> <<>>]

\* mutant: the parsed document is stored in the root before it is verified
load_earlyRoot(path, file, oldRoot) ==
    LET v == verifyCompatibility(file.doc) IN
    IF ~file.ok
    THEN [thrown |-> "none", ret |-> FALSE, root |-> oldRoot,
          diags |-> <<ShowError("Failed to read database file", 0, 0, path),
                      ShowError("parser message (Line: Column)", 0, 0, "")>>]
    ELSE IF v.thrown # "none"
    THEN [thrown |-> v.thrown, ret |-> FALSE, root |-> file.doc, diags |-> v.diags]
    ELSE IF ~v.ret
    THEN [thrown |-> "none", ret |-> FALSE, root |-> file.doc,
          diags |-> v.diags \o <<ShowError("Failed to verify compatibility", 0, 0, path)>>]
    ELSE [thrown |-> "none", ret |-> TRUE, root |-> file.doc, diags |-> v.diags]

load(path, file, oldRoot) ==
    LET v == verifyCompatibility(file.doc) IN
    IF ~file.ok
    THEN [thrown |-> "none", ret |-> FALSE, root |-> oldRoot,
          diags |-> <<ShowError("Failed to read database file", 0, 0, path),
                      ShowError("parser message (Line: Column)", 0, 0, "")>>]
    ELSE IF v.thrown # "none"
    THEN [thrown |-> v.thrown, ret |-> FALSE, root |-> oldRoot, diags |-> v.diags]
    ELSE IF ~v.ret
    THEN [thrown |-> "none", ret |-> FALSE, root |-> oldRoot,
          diags |-> v.diags \o <<ShowError("Failed to verify compatibility", 0, 0, path)>>]
    ELSE [thrown |-> "none", ret |-> TRUE, root |-> file.doc, diags |-> v.diags]

\* YamlDatabase::getRootNode
getRootNode == root

----------------------------------------------------------------------------
(* YamlDatabase::getLocations *)

db_path == "db"

conf_path == "conf"

DBIMPORT == "import"

DBPATH == "re/"

\* mutant: the overlay path comes first
getLocations_overlayFirst(filename, location) ==
    CASE location = "NORMAL_DB" ->
            <<db_path \o "/" \o DBIMPORT \o "/" \o filename, db_path \o "/" \o filename>>
      [] location = "SPLIT_DB" ->
            <<db_path \o "/" \o DBIMPORT \o "/" \o filename, db_path \o "/" \o DBPATH \o filename>>
      [] location = "CONF_DB" ->
            <<conf_path \o "/import/" \o filename, conf_path \o "/" \o filename>>
      [] OTHER -> <<>>

\* mutant: a location the switch does not know is taken as NORMAL_DB
getLocations_default(filename, location) ==
    CASE location = "SPLIT_DB" ->
            <<db_path \o "/" \o DBPATH \o filename, db_path \o "/" \o DBIMPORT \o "/" \o filename>>
      [] location = "CONF_DB" ->
            <<conf_path \o "/" \o filename, conf_path \o "/import/" \o filename>>
      [] OTHER ->
            <<db_path \o "/" \o filename, db_path \o "/" \o DBIMPORT \o "/" \o filename>>

getLocations(filename, location) ==
    CASE location = "NORMAL_DB" ->
            <<db_path \o "/" \o filename, db_path \o "/" \o DBIMPORT \o "/" \o filename>>
      [] location = "SPLIT_DB" ->
            <<db_path \o "/" \o DBPATH \o filename, db_path \o "/" \o DBIMPORT \o "/" \o filename>>
      [] location = "CONF_DB" ->
            <<conf_path \o "/" \o filename, conf_path \o "/import/" \o filename>>
      [] OTHER -> <<>>

----------------------------------------------------------------------------
(* The files LoadFile can find, the dataset definitions and the arguments  *)
(* of parse that the model explores                                        *)

DatasetType == "ITEM_DB"

\* the (version, minimumVersion) pairs of the dataset definitions: the
\* current version and the one before, also with minimumVersion > version
DefinitionVersions == (MaxVersion - 1)..MaxVersion

TypeTexts == {"ITEM_DB", "item_db"}

\* the numeral of n
NumeralText(n) == CHOOSE t \in DOMAIN Numeral : Numeral[t] = n

CurrentText == NumeralText(MaxVersion)

OutdatedText == NumeralText(MaxVersion - 1)

\* Version texts around the versions of the definitions
RangeTexts == {NumeralText(n) : n \in (MaxVersion - 2)..(MaxVersion + 1)}

\* a negative numeral that is the newest version modulo 2^16
WrappingText == NumeralText(MaxVersion - (UInt16Max + 1))

VersionTexts == RangeTexts \cup {"65535", "65536", "two", "-1"}

FileNames == {"item_db.yml"}

Locations == {"NORMAL_DB", "SPLIT_DB", "CONF_DB", "3"}

EntryIds == <<"501", "502", "503", "504">>

\* a Body entry: "- Id: <id>"
Entry(i) == MapNode(<<Pair("Id", Scalar(EntryIds[i], 4 + i))>>, 4 + i)

\* Body: a sequence of entries, one with a null entry ("- ~"); or a mapping;
\* or a scalar.  EntryLists: the sequences of 0..MaxBody entries
EntryLists == {SeqNode([i \in 1..n |-> Entry(i)], 4) : n \in 0..MaxBody}

Bodies ==
    EntryLists
        \cup {SeqNode(<<NullAt(5), Entry(2)>>, 4),
              MapNode(<<Pair("501", NullAt(4))>>, 4),
              Scalar("none", 3)}

OneEntry == SeqNode(<<Entry(1)>>, 4)

Header(t, v) == MapNode(<<Pair("Type", Scalar(t, 1)), Pair("Version", Scalar(v, 2))>>, 1)

\* headers with a scalar Type and a scalar Version
GoodHeaders == {Header(t, v) : t \in TypeTexts, v \in VersionTexts}

\* headers that miss a field or hold one of the wrong kind
OddHeaders ==
    {NullAt(0), Scalar("ITEM_DB", 0),
     MapNode(<<Pair("Version", Scalar(CurrentText, 1))>>, 1),
     MapNode(<<Pair("Type", Scalar(DatasetType, 1))>>, 1),
     MapNode(<<Pair("Type", Scalar("item_db", 1))>>, 1),
     MapNode(<<Pair("Type", SeqNode(<<Scalar(DatasetType, 1)>>, 1)),
               Pair("Version", Scalar(OutdatedText, 2))>>, 1),
     MapNode(<<Pair("Type", Scalar("item_db", 1)), Pair("Version", SeqNode(<<>>, 2))>>, 1),
     MapNode(<<Pair("Type", Scalar(DatasetType, 1)), Pair("Version", SeqNode(<<>>, 2))>>, 1)}

\* the documents: every Body under a header of the newest version, every
\* list of entries under one of the version before, one Body under every
\* other header, documents without Body, without Header,
\* and documents that are no mapping
Docs ==
    {MapNode(<<Pair("Header", Header(DatasetType, CurrentText)), Pair("Body", b)>>, 0) :
        b \in Bodies}
        \cup {MapNode(<<Pair("Header", Header(DatasetType, OutdatedText)), Pair("Body", b)>>, 0) :
                b \in EntryLists}
        \cup {MapNode(<<Pair("Header", h), Pair("Body", OneEntry)>>, 0) :
                h \in GoodHeaders \cup OddHeaders}
        \cup {MapNode(<<Pair("Header", Header(DatasetType, v))>>, 0) :
                v \in {CurrentText, OutdatedText}}
        \cup {MapNode(<<Pair("Header", Header(DatasetType, WrappingText)), Pair("Body", OneEntry)>>, 0)}
        \cup {MapNode(<<Pair("Body", OneEntry)>>, 0),
              NullNode, Scalar("Header", 0), SeqNode(<<Scalar("Header", 0)>>, 0)}

\* what YAML::LoadFile does with a path: it throws, or it gives a document
Files == {[ok |-> FALSE, doc |-> NullNode]} \cup {[ok |-> TRUE, doc |-> d] : d \in Docs}

----------------------------------------------------------------------------
(* State machine *)

NoReq == [filename |-> "", location |-> ""]

\* no accessor was called yet
NoAcc ==
    [op |-> "none", R |-> "", node |-> NullNode, name |-> "", outNull |-> FALSE,
     hasDefault |-> FALSE, old |-> 0, def |-> 0,
     thrown |-> "none", ret |-> FALSE, out |-> 0, diags |-> <<>>]

Init ==
    /\ type = DatasetType
    /\ version \in DefinitionVersions
    /\ minimumVersion \in DefinitionVersions
    /\ root = NullNode
    /\ pc = "idle"
    /\ db_filename = <<>>
    /\ fileIdx = 0
    /\ bodyPos = 0
    /\ count = 0
    /\ result = "none"
    /\ log = <<>>
    /\ loads = <<>>
    /\ req = NoReq
    /\ acc = NoAcc
    /\ wrapsNegative \in BOOLEAN

\* parse is called, for the first time or after an earlier call returned:
\* line 90, and the loop is entered
ParseCall(filename, location) ==
    /\ pc \in {"idle", "returned"}
    /\ req' = [filename |-> filename, location |-> location]
    /\ db_filename' = getLocations(filename, location)
    /\ fileIdx' = 1
    /\ pc' = "loop"
    /\ result' = "none"
    /\ log' = <<>>
    /\ loads' = <<>>
    /\ bodyPos' = 0
    /\ count' = 0
    /\ UNCHANGED <<acc, wrapsNegative, type, version, minimumVersion, root>>

\* mutant: a path that fails to load is skipped and the next one is loaded
LoadFile_skipFailed(file) ==
    /\ pc = "loop"
    /\ fileIdx <= Len(db_filename)
    /\ LET current_file == db_filename[fileIdx]
           l == load(current_file, file, root)
       IN
       /\ loads' = Append(loads, [path |-> current_file, file |-> file,
                                  ret |-> l.ret, thrown |-> l.thrown, diags |-> l.diags,
                                  at |-> Len(log) + 1])
       /\ log' = log \o l.diags
       /\ root' = l.root
       /\ count' = 0
       /\ IF l.thrown # "none"
          THEN /\ pc' = "fault"
               /\ UNCHANGED <<result, bodyPos>>
          ELSE IF ~l.ret
          THEN /\ pc' = "loop"
               /\ UNCHANGED <<result, bodyPos>>
          ELSE /\ pc' = "body"
               /\ bodyPos' = 1
               /\ UNCHANGED result
    /\ fileIdx' = IF load(db_filename[fileIdx], file, root).thrown = "none"
                      /\ ~load(db_filename[fileIdx], file, root).ret
                   THEN fileIdx + 1 ELSE fileIdx
    /\ UNCHANGED <<acc, wrapsNegative, type, version, minimumVersion, db_filename, req>>

\* mutant: the counter is declared outside the loop over the paths
LoadFile_keepCount(file) ==
    /\ pc = "loop"
    /\ fileIdx <= Len(db_filename)
    /\ LET current_file == db_filename[fileIdx]
           l == load(current_file, file, root)
       IN
       /\ loads' = Append(loads, [path |-> current_file, file |-> file,
                                  ret |-> l.ret, thrown |-> l.thrown, diags |-> l.diags,
                                  at |-> Len(log) + 1])
       /\ log' = log \o l.diags
       /\ root' = l.root
       /\ count' = count
       /\ IF l.thrown # "none"
          THEN /\ pc' = "fault"
               /\ UNCHANGED <<result, bodyPos>>
          ELSE IF ~l.ret
          THEN /\ pc' = "returned"
               /\ result' = FALSE
               /\ UNCHANGED bodyPos
          ELSE /\ pc' = "body"
               /\ bodyPos' = 1
               /\ UNCHANGED result
    /\ UNCHANGED <<acc, wrapsNegative, type, version, minimumVersion, db_filename, fileIdx, req>>

\* lines 92-96: the next path is loaded; file is what is found at the path
LoadFile(file) ==
    /\ pc = "loop"
    /\ fileIdx <= Len(db_filename)
    /\ LET current_file == db_filename[fileIdx]
           l == load(current_file, file, root)
       IN
       /\ loads' = Append(loads, [path |-> current_file, file |-> file,
                                  ret |-> l.ret, thrown |-> l.thrown, diags |-> l.diags,
                                  at |-> Len(log) + 1])
       /\ log' = log \o l.diags
       /\ root' = l.root
       /\ count' = 0
       /\ IF l.thrown # "none"
          THEN /\ pc' = "fault"
               /\ UNCHANGED <<result, bodyPos>>
          ELSE IF ~l.ret
          THEN /\ pc' = "returned"
               /\ result' = FALSE
               /\ UNCHANGED bodyPos
          ELSE /\ pc' = "body"
               /\ bodyPos' = 1
               /\ UNCHANGED result
    /\ UNCHANGED <<acc, wrapsNegative, type, version, minimumVersion, db_filename, fileIdx, req>>

\* the Body the loop of line 98 iterates.  The lookup cannot throw: the root
\* is the initial node or a document in which Header was found, never a
\* scalar or an invalid node.
BodyOf(r) == NodeGet(r, "Body").node

\* mutant: the loop over Body ends when func returns false
BodyEntry_stopOnFalse(ret) ==
    /\ pc = "body"
    /\ bodyPos <= Len(Iterate(BodyOf(getRootNode)))
    /\ LET node == Iterate(BodyOf(getRootNode))[bodyPos]
           current_file == db_filename[fileIdx]
       IN
       IF IsDefined(node)
       THEN /\ log' = Append(log, Called(node, current_file, ret))
            /\ count' = IF ret THEN count + 1 ELSE count
       ELSE /\ ret = FALSE
            /\ UNCHANGED <<log, count>>
    /\ bodyPos' = IF IsDefined(Iterate(BodyOf(getRootNode))[bodyPos]) /\ ~ret
                   THEN Len(Iterate(BodyOf(getRootNode))) + 1
                   ELSE bodyPos + 1
    /\ UNCHANGED <<acc, wrapsNegative, type, version, minimumVersion, root, pc, db_filename, fileIdx,
                   result, loads, req>>

\* lines 98-101: one iteration over Body; ret is what func returns
BodyEntry(ret) ==
    /\ pc = "body"
    /\ bodyPos <= Len(Iterate(BodyOf(getRootNode)))
    /\ LET node == Iterate(BodyOf(getRootNode))[bodyPos]
           current_file == db_filename[fileIdx]
       IN
       IF IsDefined(node)
       THEN /\ log' = Append(log, Called(node, current_file, ret))
            /\ count' = IF ret THEN count + 1 ELSE count
       ELSE /\ ret = FALSE
            /\ UNCHANGED <<log, count>>
    /\ bodyPos' = bodyPos + 1
    /\ UNCHANGED <<acc, wrapsNegative, type, version, minimumVersion, root, pc, db_filename, fileIdx,
                   result, loads, req>>

\* line 103: the Body is exhausted, the status is shown, the next path follows
FileDone ==
    /\ pc = "body"
    /\ bodyPos > Len(Iterate(BodyOf(getRootNode)))
    /\ log' = Append(log, ShowStatus("Done reading entries", count, db_filename[fileIdx]))
    /\ fileIdx' = fileIdx + 1
    /\ pc' = "loop"
    /\ UNCHANGED <<acc, wrapsNegative, type, version, minimumVersion, root, db_filename, bodyPos, count,
                   result, loads, req>>

\* line 106: every path was loaded
ParseReturn ==
    /\ pc = "loop"
    /\ fileIdx > Len(db_filename)
    /\ result' = TRUE
    /\ pc' = "returned"
    /\ UNCHANGED <<acc, wrapsNegative, type, version, minimumVersion, root, db_filename, fileIdx, bodyPos,
                   count, log, loads, req>>

Next ==
    \/ \E filename \in FileNames, location \in Locations : ParseCall(filename, location)
    \/ \E file \in Files : LoadFile(file)
    \/ \E ret \in BOOLEAN : BodyEntry(ret)
    \/ FileDone
    \/ ParseReturn

Spec == Init /\ [][Next]_vars

----------------------------------------------------------------------------
(* The typed accessor and nodeExists, called with any node: a callback of  *)
(* parse hands them the entry it got, or a node looked up in it            *)

\* the element types R the accessor is called with
AccTypes == {"uint16", "string"}

\* a Body entry with fields of several kinds
\*   line 4   - Rate: 7
\*   line 5     Name: apple
\*   line 6     List: [7]
\*   line 7     Nothing: ~
AccEntry ==
    MapNode(<<Pair("Rate", Scalar("7", 4)), Pair("Name", Scalar("apple", 5)),
              Pair("List", SeqNode(<<Scalar("7", 6)>>, 6)), Pair("Nothing", NullAt(7))>>, 4)

\* the containing nodes: an entry, and what a lookup or a Body of another
\* shape hands over: an invalid node, a null, a scalar, a sequence
AccNodes == {AccEntry, ZombieNode, NullAt(3), Scalar("7", 3), SeqNode(<<Scalar("7", 3)>>, 3)}

AccNames == {"Rate", "Name", "List", "Nothing", "Missing"}

\* what *out holds before the call
AccOld(R) == IF R = "uint16" THEN 11 ELSE "old"

\* the default the caller supplies, if it supplies one
AccDefault(R) == IF R = "uint16" THEN 22 ELSE "dflt"

\* asType<R>(node, name, out, defaultValue) is called and returns or throws
AccessorCall(R, node, name, outNull, old, hasDefault, def) ==
    /\ pc = "idle"
    /\ LET a == asType(R, node, name, outNull, old, hasDefault, def) IN
       acc' = [op |-> "asType", R |-> R, node |-> node, name |-> name, outNull |-> outNull,
               hasDefault |-> hasDefault, old |-> old, def |-> def,
               thrown |-> a.thrown, ret |-> a.ret, out |-> a.out, diags |-> a.diags]
    /\ UNCHANGED <<wrapsNegative, type, version, minimumVersion, root, pc, db_filename, fileIdx,
                   bodyPos, count, result, log, loads, req>>

\* nodeExists(node, name) is called and returns or throws
NodeExistsCall(node, name) ==
    /\ pc = "idle"
    /\ LET e == nodeExists(node, name) IN
       acc' = [NoAcc EXCEPT !.op = "nodeExists", !.node = node, !.name = name,
                            !.thrown = e.thrown, !.ret = e.ret]
    /\ UNCHANGED <<wrapsNegative, type, version, minimumVersion, root, pc, db_filename, fileIdx,
                   bodyPos, count, result, log, loads, req>>

NextAcc ==
    \/ \E R \in AccTypes, node \in AccNodes, name \in AccNames, outNull \in BOOLEAN,
          hasDefault \in BOOLEAN :
          AccessorCall(R, node, name, outNull, AccOld(R), hasDefault, AccDefault(R))
    \/ \E node \in AccNodes, name \in AccNames : NodeExistsCall(node, name)

SpecAcc == Init /\ [][NextAcc]_vars

----------------------------------------------------------------------------
(* What the properties speak of *)

Recognized == {"NORMAL_DB", "SPLIT_DB", "CONF_DB"}

HeaderNode(doc) == NodeGet(doc, "Header").node

TypeNode(doc) == NodeGet(HeaderNode(doc), "Type").node

VersionNode(doc) == NodeGet(HeaderNode(doc), "Version").node

\* the header's Type is a string
TypeIsString(doc) == TypeNode(doc).kind = "Scalar"

\* the header's Version is the numeral of an unsigned 16-bit value
VersionValid(doc) ==
    /\ VersionNode(doc).kind = "Scalar"
    /\ VersionNode(doc).text \in DOMAIN Numeral
    /\ Numeral[VersionNode(doc).text] \in 0..65535

VersionOf(doc) == Numeral[VersionNode(doc).text]

\* the load calls that got a document, so that verifyCompatibility ran
Verified == {j \in 1..Len(loads) : loads[j].file.ok}

\* the index in log of the last event of the j-th loaded file
SegmentEnd(j) == IF j < Len(loads) THEN loads[j + 1].at - 1 ELSE Len(log)

\* the defined entries a range-for over the document's Body visits
DefinedEntries(doc) == SelectSeq(Iterate(NodeGet(doc, "Body").node), IsDefined)

IsCall(e) == e.ev = "call"

IsStatus(e) == e.ev = "status"

IsOutdatedWarning(e) == e.ev = "warning" /\ e.msg = "outdated: current version"

----------------------------------------------------------------------------
(* C1: the callback is invoked only on Body entries of the file loaded     *)
(* last, and that file was parsed and its header approved by               *)
(* verifyCompatibility; after a load that failed no entry is handed over.  *)
C1_CallbackOnlyAfterApproval ==
    /\ \A k \in 1..Len(log) :
           IsCall(log[k]) => (loads # <<>> /\ loads[1].at <= k)
    /\ \A j \in 1..Len(loads) :
           LET calls_j == SelectSeq(SubSeq(log, loads[j].at, SegmentEnd(j)), IsCall)
               entries_j == DefinedEntries(loads[j].file.doc)
           IN
           calls_j # <<>> =>
               /\ loads[j].file.ok
               /\ loads[j].ret = TRUE
               /\ verifyCompatibility(loads[j].file.doc).ret = TRUE
               /\ verifyCompatibility(loads[j].file.doc).thrown = "none"
               /\ \A k \in 1..Len(calls_j) :
                      /\ calls_j[k].file = loads[j].path
                      /\ \E i \in 1..Len(entries_j) : entries_j[i] = calls_j[k].node

\* the base file's entries were handed over, the overlay failed the header check
C1_Witness ==
    /\ Len(loads) = 2
    /\ loads[2].file.ok
    /\ loads[2].ret = FALSE
    /\ DefinedEntries(loads[2].file.doc) # <<>>
    /\ \E k \in 1..Len(log) : IsCall(log[k])

(* C2 as stated: a document whose Version v has v < minimumVersion or      *)
(* v > version is never approved, for every version and minimumVersion.    *)
C2_Original ==
    \A j \in Verified :
        LET doc == loads[j].file.doc IN
        (VersionValid(doc) /\ (VersionOf(doc) < minimumVersion \/ VersionOf(doc) > version))
            => loads[j].ret = FALSE

(* C2 amended: a document whose Version v has v > version, or v <          *)
(* minimumVersion and v # version, is never approved, and where its Type   *)
(* is a string verifyCompatibility returns false; a document whose Version *)
(* is the dataset version and whose Type matches is approved also when     *)
(* minimumVersion > version.                                               *)
C2_OutOfRangeRejected ==
    \A j \in Verified :
        LET doc == loads[j].file.doc IN
        /\ (/\ VersionValid(doc)
            /\ \/ VersionOf(doc) > version
               \/ VersionOf(doc) < minimumVersion /\ VersionOf(doc) # version)
               => /\ loads[j].ret = FALSE
                  /\ TypeIsString(doc) => loads[j].thrown = "none"
        /\ (/\ VersionValid(doc)
            /\ TypeIsString(doc) /\ TypeNode(doc).text = type
            /\ VersionOf(doc) = version)
               => loads[j].ret = TRUE

\* a too old and a too new file were both rejected in one run of the loader
C2_Witness ==
    /\ Len(loads) = 1
    /\ LET doc == loads[1].file.doc IN
       /\ loads[1].file.ok
       /\ VersionValid(doc)
       /\ TypeIsString(doc) /\ TypeNode(doc).text = type
       /\ VersionOf(doc) < minimumVersion
       /\ VersionOf(doc) < version
       /\ loads[1].ret = FALSE
       /\ loads[1].thrown = "none"

(* C3: with the dataset's Type and a valid Version v: v = version gives    *)
(* true with no warning and no error; minimumVersion <= v < version gives  *)
(* true with exactly one diagnostic, the outdated-version warning.         *)
C3_AcceptedVersions ==
    \A j \in Verified :
        LET doc == loads[j].file.doc IN
        (TypeIsString(doc) /\ TypeNode(doc).text = type /\ VersionValid(doc)) =>
            /\ VersionOf(doc) = version =>
                   /\ loads[j].ret = TRUE
                   /\ loads[j].thrown = "none"
                   /\ loads[j].diags = <<>>
            /\ (minimumVersion <= VersionOf(doc) /\ VersionOf(doc) < version) =>
                   /\ loads[j].ret = TRUE
                   /\ loads[j].thrown = "none"
                   /\ Len(loads[j].diags) = 1
                   /\ IsOutdatedWarning(loads[j].diags[1])
                   /\ loads[j].diags[1].n1 = VersionOf(doc)
                   /\ log[loads[j].at] = loads[j].diags[1]

\* a current base file was accepted silently, an outdated overlay with a warning
C3_Witness ==
    /\ Len(loads) = 2
    /\ VersionValid(loads[1].file.doc)
    /\ VersionOf(loads[1].file.doc) = version
    /\ loads[1].ret = TRUE
    /\ VersionValid(loads[2].file.doc)
    /\ VersionOf(loads[2].file.doc) < version
    /\ loads[2].ret = TRUE

(* C4: a header whose Type is a string other than the dataset type (by     *)
(* case too) makes verifyCompatibility return false with the type-mismatch *)
(* error as its only diagnostic, whatever Version is: no Version           *)
(* diagnostic is shown.                                                    *)
C4_TypeMismatchRejected ==
    \A j \in Verified :
        LET doc == loads[j].file.doc IN
        (TypeIsString(doc) /\ TypeNode(doc).text # type) =>
            /\ loads[j].ret = FALSE
            /\ loads[j].thrown = "none"
            /\ Len(loads[j].diags) = 2
            /\ loads[j].diags[1] = ShowError("Database type mismatch", 0, 0, TypeNode(doc).text)
            /\ loads[j].diags[2].msg = "Failed to verify compatibility"

\* a file of another type with the current version, one without a Version
\* and one with a malformed Version were rejected
C4_Witness ==
    /\ Len(loads) = 1
    /\ LET doc == loads[1].file.doc IN
       /\ TypeIsString(doc)
       /\ TypeNode(doc).text = "item_db"
       /\ VersionValid(doc)
       /\ VersionOf(doc) = version
       /\ loads[1].ret = FALSE

----------------------------------------------------------------------------
(* The events of one loaded file *)

\* the events from the j-th load to the next one
Segment(j) == SubSeq(log, loads[j].at, SegmentEnd(j))

CallOf(e) == <<e.node, e.file>>

\* the (entry, path) pairs handed to the callback while file j was current
CallsOfFile(j) ==
    LET c == SelectSeq(Segment(j), IsCall) IN [i \in 1..Len(c) |-> CallOf(c[i])]

\* the defined entries of file j in Body order, each with the file's path
EntriesOfFile(j) ==
    LET d == DefinedEntries(loads[j].file.doc) IN
    [i \in 1..Len(d) |-> <<d[i], loads[j].path>>]

IsAccepted(e) == e.ev = "call" /\ e.ret

\* the number of entries of file j the callback has accepted
AcceptedOfFile(j) == Len(SelectSeq(Segment(j), IsAccepted))

StatusesOfFile(j) == SelectSeq(Segment(j), IsStatus)

\* the Body of file j has been iterated to its end and the status shown
FileFinished(j) == j < Len(loads) \/ pc # "body"

C6_FailSoft ==
    (/\ pc = "returned"
     /\ Len(loads) = Len(db_filename)
     /\ \A j \in 1..Len(loads) : loads[j].ret = TRUE)
        => /\ result = TRUE
           /\ \A j \in 1..Len(loads) :
                  /\ loads[j].path = db_filename[j]
                  /\ CallsOfFile(j) = EntriesOfFile(j)
           /\ \A k \in 1..Len(log) : IsCall(log[k]) => \E j \in 1..Len(loads) :
                  loads[j].at <= k /\ k <= SegmentEnd(j)

\* both files were iterated, and the callback rejected an entry that was
\* not the last one of its file
C6_Witness ==
    /\ pc = "returned"
    /\ result = TRUE
    /\ Len(loads) = 2
    /\ Len(EntriesOfFile(2)) > 0
    /\ \E k \in 1..Len(log) :
           /\ IsCall(log[k]) /\ ~log[k].ret
           /\ k < Len(log) /\ IsCall(log[k + 1])
           /\ log[k + 1].file = db_filename[1]

(* C7: a file that loaded gets exactly one status, as the last event of    *)
(* the file and before the next load, and its count is the number of the   *)
(* file's entries the callback accepted; while the file is iterated the    *)
(* counter is the number accepted so far in this file, and no status has   *)
(* been shown for it.                                                      *)
C7_StatusCount ==
    \A j \in 1..Len(loads) :
        loads[j].ret = TRUE =>
            IF FileFinished(j)
            THEN /\ Len(StatusesOfFile(j)) = 1
                 /\ log[SegmentEnd(j)] =
                        ShowStatus("Done reading entries", AcceptedOfFile(j), loads[j].path)
            ELSE /\ StatusesOfFile(j) = <<>>
                 /\ count = AcceptedOfFile(j)

\* both files are done; the callback accepted entries of the base file and
\* fewer of the overlay file
C7_Witness ==
    /\ Len(loads) = 2
    /\ loads[2].ret = TRUE
    /\ pc = "returned"
    /\ AcceptedOfFile(1) = 2
    /\ AcceptedOfFile(2) = 1
    /\ Len(EntriesOfFile(2)) = 2

C9_Locations ==
    (pc # "idle" /\ req.location \in Recognized) =>
        /\ Len(db_filename) = 2
        /\ req.location = "NORMAL_DB" =>
               db_filename = <<"db/" \o req.filename, "db/import/" \o req.filename>>
        /\ req.location = "SPLIT_DB" =>
               db_filename = <<"db/" \o DBPATH \o req.filename, "db/import/" \o req.filename>>
        /\ req.location = "CONF_DB" =>
               db_filename = <<"conf/" \o req.filename, "conf/import/" \o req.filename>>
        /\ \A j \in 1..Len(loads) : loads[j].path = db_filename[j]

\* a split database whose base and import file were both loaded
C9_Witness ==
    /\ req.location = "SPLIT_DB"
    /\ Len(loads) = 2
    /\ loads[1].path = "db/re/item_db.yml"
    /\ loads[2].path = "db/import/item_db.yml"

(* C10: for a location that is none of the three, getLocations gives the   *)
(* empty list, and parse returns true with no load, no callback            *)
(* invocation and no status, and with the root it found.                   *)
C10_UnknownLocation ==
    /\ []((pc # "idle" /\ req.location \notin Recognized) =>
            /\ db_filename = <<>>
            /\ loads = <<>>
            /\ log = <<>>
            /\ pc \in {"loop", "returned"}
            /\ fileIdx > Len(db_filename)
            /\ pc = "returned" => result = TRUE)
    /\ [][(pc' # "idle" /\ req'.location \notin Recognized) => root' = root]_vars

\* parse returned true for an unknown location, the root of an earlier
\* call is still there
C10_Witness ==
    /\ req.location \notin Recognized
    /\ pc = "returned"
    /\ result = TRUE
    /\ root # NullNode

----------------------------------------------------------------------------
(* What the properties of the accessor speak of *)

\* the containing node is a mapping with the key
Present(node, name) == node.kind = "Map" /\ KeyIdx(node.map, name) # {}

\* the field of a mapping that has the key
FieldOf(node, name) == NodeGet(node, name).node

\* the field is present and its conversion to R succeeds
Converts(R, node, name) == Present(node, name) /\ Convert(R, FieldOf(node, name)).thrown = "none"

\* the last call was a typed accessor with an output target
AccessorRan == acc.op = "asType" /\ ~acc.outNull

----------------------------------------------------------------------------
(* C11: with an output target the accessor returns: true and the converted *)
(* value when the field is present and converts; true and the default when *)
(* it is absent or does not convert and a default was given; false when it *)
(* is absent or does not convert and no default was given.                 *)
C11_ResultMatrix ==
    AccessorRan =>
        /\ acc.thrown = "none"
        /\ IF Converts(acc.R, acc.node, acc.name)
           THEN acc.ret /\ acc.out = Convert(acc.R, FieldOf(acc.node, acc.name)).value
           ELSE IF acc.hasDefault
           THEN acc.ret /\ acc.out = acc.def
           ELSE ~acc.ret

----------------------------------------------------------------------------
(* C12: with an output target the accessor emits exactly: nothing when the *)
(* field converts or is absent with a default; one warning with the        *)
(* field's name and the field's 1-based line when it does not convert and  *)
(* a default was given; one error with the field's 1-based line when it    *)
(* does not convert without a default; one missing-field error with the    *)
(* containing node's 1-based line when it is absent without a default.     *)
C12_Diagnostics ==
    AccessorRan =>
        acc.diags =
            IF Converts(acc.R, acc.node, acc.name) THEN <<>>
            ELSE IF Present(acc.node, acc.name)
            THEN IF acc.hasDefault
                 THEN <<ShowWarning("Unable to parse. Using default value...",
                                    FieldOf(acc.node, acc.name).line + 1, 0, acc.name)>>
                 ELSE <<ShowError("Unable to parse",
                                  FieldOf(acc.node, acc.name).line + 1, 0, acc.name)>>
            ELSE IF acc.hasDefault THEN <<>>
            ELSE <<ShowError("Missing node", acc.node.line + 1, 0, acc.name)>>

----------------------------------------------------------------------------
(* C13: nodeExists returns for every node and never throws; it returns     *)
(* true exactly when the node is a mapping that has the key.               *)
C13_NodeExistsTotal ==
    acc.op = "nodeExists" =>
        /\ acc.thrown = "none"
        /\ acc.ret = Present(acc.node, acc.name)

----------------------------------------------------------------------------
(* C18: whenever the accessor returns false (the field is absent without a *)
(* default, does not convert without a default, or there is no output      *)
(* target) what the output target holds is what it held before the call.   *)
C18_OutputKeptOnFalse ==
    (acc.op = "asType" /\ acc.thrown = "none" /\ ~acc.ret) => acc.out = acc.old

\* the accessor returned false for an absent field, where the conversion of
\* the missing field gives another value than the target held
C18_Witness ==
    /\ AccessorRan
    /\ acc.thrown = "none"
    /\ ~acc.ret
    /\ acc.node.kind = "Map"
    /\ ~Present(acc.node, acc.name)
    /\ acc.out = acc.old
    /\ acc.old # acc.def
    /\ acc.old # Convert(acc.R, FieldOf(acc.node, acc.name)).value

----------------------------------------------------------------------------
(* What the properties of the header check speak of *)

\* the first step of the header check the document fails, "none" if it
\* passes all of them
FailingStep(doc) ==
    IF ~Present(doc, "Header") THEN "HeaderMissing"
    ELSE IF HeaderNode(doc).kind # "Map" THEN "HeaderNoMapping"
    ELSE IF ~Present(HeaderNode(doc), "Type") THEN "TypeMissing"
    ELSE IF ~TypeIsString(doc) THEN "TypeNoString"
    ELSE IF TypeNode(doc).text # type THEN "TypeDifferent"
    ELSE IF ~Present(HeaderNode(doc), "Version") \/ AsStdUInt16(VersionNode(doc)).thrown # "none"
    THEN "VersionInvalid"
    ELSE IF \/ AsStdUInt16(VersionNode(doc)).value > version
            \/ /\ AsStdUInt16(VersionNode(doc)).value < minimumVersion
               /\ AsStdUInt16(VersionNode(doc)).value # version
    THEN "VersionRange"
    ELSE "none"

\* the errors with which verifyCompatibility reports a failing step
StepErrors ==
    {"No database header was found.", "No database type was found.", "Database type mismatch",
     "Invalid header version type", "not supported: maximum version",
     "not supported anymore: minimum version"}

\* the errors that report the given failing step
ErrorsOfStep(step) ==
    CASE step = "HeaderMissing" -> {"No database header was found."}
      [] step = "HeaderNoMapping" -> {"No database header was found.", "No database type was found."}
      [] step = "TypeMissing" -> {"No database type was found."}
      [] step = "TypeNoString" -> {"No database type was found.", "Database type mismatch"}
      [] step = "TypeDifferent" -> {"Database type mismatch"}
      [] step = "VersionInvalid" -> {"Invalid header version type"}
      [] step = "VersionRange" ->
            {"not supported: maximum version", "not supported anymore: minimum version"}
      [] OTHER -> {}

IsStepError(e) == e.ev = "error" /\ e.msg \in StepErrors

----------------------------------------------------------------------------
(* C14: for every parsed document verifyCompatibility, and so load, ends   *)
(* with a boolean and lets no fault escape; the first failing step of      *)
(* Header, Type, Version-parse, version-range reports its error and makes  *)
(* the result false, and no later step reports anything.                   *)
C14_NoFaultEscapes ==
    \A j \in Verified :
        LET step == FailingStep(loads[j].file.doc)
            said == SelectSeq(loads[j].diags, IsStepError)
        IN
        /\ loads[j].thrown = "none"
        /\ loads[j].ret = (step = "none")
        /\ IF step = "none"
           THEN said = <<>>
           ELSE Len(said) = 1 /\ said[1].msg \in ErrorsOfStep(step)

----------------------------------------------------------------------------
(* C15: the root changes only in a load that returned true, and then to    *)
(* the document of that load; a load that failed leaves the root as it     *)
(* was; so the root is the document of the most recent load that returned  *)
(* true, or the initial empty node, and it always has an approved header.  *)
C15_CurrentRoot ==
    /\ [](/\ root # NullNode =>
                /\ verifyCompatibility(root).thrown = "none"
                /\ verifyCompatibility(root).ret
          /\ \A j \in 1..Len(loads) :
                (loads[j].ret /\ \A k \in (j + 1)..Len(loads) : ~loads[k].ret)
                    => getRootNode = loads[j].file.doc)
    /\ [][IF Len(loads') = Len(loads) + 1
          THEN IF loads'[Len(loads')].ret
               THEN root' = loads'[Len(loads')].file.doc
               ELSE root' = root
          ELSE root' = root]_vars

\* a file was loaded and became the root; then a file that parsed failed the
\* header check, and a later parse call finds the root of the first file
C15_Witness ==
    /\ Len(loads) = 2
    /\ loads[1].ret
    /\ loads[2].file.ok
    /\ ~loads[2].ret
    /\ loads[2].thrown = "none"
    /\ loads[2].file.doc # loads[1].file.doc
    /\ getRootNode = loads[1].file.doc
    /\ pc = "returned"

----------------------------------------------------------------------------
(* C16: a header Version that is not the numeral of a value in 0..65535    *)
(* (negative, above 65535, or no number) makes the header check return     *)
(* false with the invalid-version error; it is never wrapped modulo 2^16   *)
(* into a value that passes the version comparison.                        *)
C16_Unsigned16Only ==
    \A j \in Verified :
        (/\ FailingStep(loads[j].file.doc) \in {"VersionInvalid", "VersionRange", "none"}
         /\ ~VersionValid(loads[j].file.doc))
            => /\ ~loads[j].ret
               /\ \E i \in 1..Len(loads[j].diags) :
                      /\ loads[j].diags[i].ev = "error"
                      /\ loads[j].diags[i].msg = "Invalid header version type"

----------------------------------------------------------------------------
(* C17: the outdated-version warning for a file whose Version v satisfies  *)
(* minimumVersion <= v < version carries v and, as the current version,    *)
(* the dataset's version.                                                  *)
C17_WarningNamesCurrentVersion ==
    \A j \in Verified :
        (/\ loads[j].ret
         /\ VersionValid(loads[j].file.doc)
         /\ minimumVersion <= VersionOf(loads[j].file.doc)
         /\ VersionOf(loads[j].file.doc) < version)
            => /\ \E i \in 1..Len(loads[j].diags) : IsOutdatedWarning(loads[j].diags[i])
               /\ \A i \in 1..Len(loads[j].diags) :
                      IsOutdatedWarning(loads[j].diags[i])
                          => /\ loads[j].diags[i].n1 = VersionOf(loads[j].file.doc)
                             /\ loads[j].diags[i].n2 = version

====
